---- MODULE Spec2Model ----
(***************************************************************************)
(* Model of the bounded-concurrency snippet-fetch pipeline of dolphin-mcp: *)
(*   - mapWithConcurrency        (util/concurrency.ts)                     *)
(*   - fetchSnippetsInParallel   (mcp/tools/snippet_fetcher.ts)            *)
(*   - the payload trimming of the search_knowledge handler                *)
(*   - the try / catch of the search_knowledge handler                     *)
(*   - the repository-list cache of open_in_editor                         *)
(*   - the temporary-file write of file_write                              *)
(*                                                                         *)
(* JavaScript runs one job at a time: every action below is one job (the   *)
(* synchronous part of a call, or the continuation that runs after an      *)
(* awaited promise settles), executed to its end.                          *)
(***************************************************************************)
EXTENDS Integers, Sequences, FiniteSets, TLC

VARIABLES
  \* ---- mapWithConcurrency ----
  pc,             \* "new": not called yet, "running": promise pending, "resolved"
  items,          \* the input length N (the items themselves are opaque)
  optMax,         \* options.maxConcurrent as passed (<<>> when omitted, else <<c>>)
  onProgress,     \* options.onProgress: "returns", "throws" (on every invocation)
                  \* or "throws_first" (on its first invocation only)
  mapperKind,     \* per index: "throws" (synchronous throw) or "async" (returns a promise)
  currentIndex,
  activeCount,
  results,        \* index -> TaskResult or Undefined (a hole of the array)
  pending,        \* indices whose mapper promise has not settled yet
  calls,          \* the mapper invocations made so far, in order (by index)
  progress,       \* the onProgress invocations made so far, in order
  highWater,      \* the largest number of mapper invocations in flight so far
  outcome,        \* per index: what its mapper invocation did ("none", "ok", "fail")
  resolvedAt,     \* <<>>, or <<what held when resolve(results) was first called>>
  \* ---- fetchSnippetsInParallel ----
  fpc,            \* "new", "mapping" (awaiting mapWithConcurrency), "done" (map returned)
  retryAttempts,  \* options.retryAttempts
  aborted,        \* whether the caller's AbortSignal has fired
  phase,          \* per request: "idle", "fetching", "backoff", "settled"
  attempt,        \* per request: the loop variable `attempt`
  fetchCalls,     \* per request: number of restGetFileSlice invocations so far
  timedOut,       \* per request: number of attempts ended by the per-attempt timer
  snippetMap,     \* index -> SnippetFetchResult, or Absent
  inFlightAtCancel, \* the requests whose attempt was in flight when the signal fired
  settleOrder,    \* the requests in the order in which their mappers settled
  delays,         \* per request: the backoff delays waited so far, in ms, in order
  \* ---- search_knowledge: response assembly and payload trimming ----
  tpc,            \* position in the handler: "hits", "step1", "step2a", "step2b",
                  \* "step3", "step4", "step4loop", "done"
  hits,           \* transformedRes.hits: per hit the snippet text (kind, len)
  baseBytes,      \* serialized bytes of all that trimming never touches
  upstreamComplete, \* transformedRes.meta.complete: "undefined", "true", "false"
  content,        \* result.content: blocks [type, hit, len]
  metaHits,       \* result._meta.hits: the hit each entry was built from
  complete,       \* result._meta.complete
  size,           \* the handler's variable `size`
  ti,             \* the loop variable `i` of steps 2 and 3
  dropped,        \* number of blocks popped by step 4
  hitWarnings,    \* transformedRes.hits[i]._snippet_warnings, per hit
  isError,        \* result.isError: "undefined" before assembly, then "false"
  pass,           \* 1: the handler's trimming; 2: the same procedure applied again
  first,          \* <<>>, or <<the result the first application ended with>>
  \* ---- search_knowledge: the handler's try / catch ----
  hpc,            \* "idle", "searching", "logging", "running", "catch",
                  \* "returned", "thrown"
  caught,         \* <<>>, or <<the value the catch block received>>
  hresult,        \* <<>>, or <<the CallToolResult the handler returned>>
  \* ---- open_in_editor ----
  now,            \* Date.now(), in milliseconds
  cache,          \* the module variable `cache`: <<>> (null) or <<[ts |-> t]>>
  ecall,          \* per handler call: its position and what it did
  lastRefresh,    \* <<>>, or <<time the last successful restListRepos returned>>
  \* ---- file_write ----
  wpc,            \* position in the handler of file_write
  winput,         \* the input: [valid, create_backup, create_directories]
  target,         \* content at fullPath: "absent", "old" (complete previous
                  \* content), "new" (complete new content)
  previous,       \* content at fullPath when the call was made
  temp,           \* content at tempPath: "absent", "partial", "complete"
  backup,         \* content at backupPath: "absent", "old"
  wfailed,        \* the step of the call that threw ("none" when none did)
  wresult,        \* <<>>, or <<the CallToolResult the handler returned>>
  \* ---- line ranges: from a hit to its citation header ----
  rpc,            \* "idle", "request", "fetched", "hit", "rendered"
  hit,            \* <<>>, or <<the upstream hit: [start_line, end_line]>>
  request,        \* <<>>, or <<the SnippetFetchRequest: [startLine, endLine,
                  \* contextLinesBefore, contextLinesAfter]>>; a margin is <<>>
                  \* (missing) or <<n>>
  sliceCall,      \* <<>>, or <<the range restGetFileSlice was called with>>
  snippetResult,  \* <<>>, or <<the request's entry of snippetMap>>
  thit,           \* <<>>, or <<the transformed hit>>
  lineRange       \* <<>>, or <<the range the citation header shows>>

mapVars == <<pc, items, optMax, onProgress, mapperKind, currentIndex, activeCount,
             results, pending, calls, progress, highWater, outcome, resolvedAt>>

\* What the caller passes: never assigned by mapWithConcurrency.
mapInputs == <<items, optMax, onProgress, mapperKind>>

fetchVars == <<fpc, retryAttempts, aborted, inFlightAtCancel, phase, attempt,
               fetchCalls, timedOut, snippetMap, settleOrder, delays>>

\* What the fetch has been observed to do: when mappers settled and how long
\* they backed off.
fetchLog == <<settleOrder, delays>>

trimVars == <<tpc, hits, baseBytes, upstreamComplete, content, metaHits, complete,
              size, ti, dropped, hitWarnings, isError, pass, first>>

handlerVars == <<hpc, caught, hresult>>

editorVars == <<now, cache, ecall, lastRefresh>>

writeVars == <<wpc, winput, target, previous, temp, backup, wfailed, wresult>>

rangeVars == <<rpc, hit, request, sliceCall, snippetResult, thit, lineRange>>

toolVars == <<handlerVars, editorVars, writeVars, rangeVars>>

\* What the handlers of open_in_editor and file_write and the try / catch of
\* search_knowledge never touch.
libVars == <<mapVars, fetchVars, trimVars, rangeVars>>

vars == <<mapVars, fetchVars, trimVars, toolVars>>

----------------------------------------------------------------------------
(* Bounds of the model *)

MaxItems == 3

\* Array indices the model can hold: the initial batch can run past the end of
\* the input when mappers throw synchronously (at most one extra index per
\* iteration of the initial loop).
Idx == 0 .. (2 * MaxItems)

\* The values of options.maxConcurrent that are tried: negative, zero, below,
\* at and above the number of items, and omitted.
OptMaxValues == {<<>>, <<-1>>, <<0>>, <<1>>, <<2>>, <<MaxItems + 2>>}

Max(a, b) == IF a >= b THEN a ELSE b
Min(a, b) == IF a <= b THEN a ELSE b

----------------------------------------------------------------------------
(* mapWithConcurrency *)

DefaultMaxConcurrent == 8

\* const maxConcurrent = Math.max(1, options?.maxConcurrent ?? 8)
maxConcurrent == Max(1, IF optMax = <<>> THEN DefaultMaxConcurrent ELSE optMax[1])

\* let hasError = false   (never assigned again)
hasError == FALSE

Undefined == [index |-> -1, success |-> FALSE, data |-> <<>>, error |-> <<>>]

\* What the mapper invocation for index i produces.
MapperData(i) == <<"data", i>>
MapperError(i) == <<"error", i>>

\* results[index] = { index, success: true, data }
SuccessResult(index, data) ==
  [index |-> index, success |-> TRUE, data |-> data, error |-> <<>>]

\* A catch block that drops the error it caught.
FailureResultWithoutError(index, error) ==
  [index |-> index, success |-> FALSE, data |-> <<>>, error |-> <<>>]

\* results[index] = { index, success: false, error }
FailureResult(index, error) ==
  [index |-> index, success |-> FALSE, data |-> <<>>, error |-> error]

\* results.filter(r => r !== undefined).length
DefinedCount(res) == Cardinality({i \in Idx : res[i] # Undefined})

\* The length of the results array: new Array(items.length), grown by any
\* assignment past its end.
ArrayLength(res) ==
  LET set == {i \in Idx : res[i] # Undefined}
  IN  IF set = {} THEN items
      ELSE Max(items, 1 + (CHOOSE i \in set : \A j \in set : j <= i))

\* The part of the state the synchronous code of runTask works on.
MapState ==
  [cur |-> currentIndex, act |-> activeCount, res |-> results, pend |-> pending,
   calls |-> calls, prog |-> progress, high |-> highWater, out |-> outcome,
   resolved |-> pc = "resolved", at |-> resolvedAt]

RECURSIVE RunTask(_, _)
RECURSIVE Finally(_)

\* updateProgress()
UpdateProgress(st) ==
  [st EXCEPT !.prog = Append(@, <<DefinedCount(st.res), items>>)]

\* The promise is settled by the first resolve(results) (or the empty array is
\* returned): what is in flight and which entries are missing at that moment.
Resolve(st) ==
  [st EXCEPT !.resolved = TRUE,
             !.at = IF st.resolved THEN @
                    ELSE <<[act |-> st.act, pend |-> st.pend,
                            missing |-> {i \in 0 .. items - 1 : st.res[i] = Undefined}]>>]

\* A completion test that is met only once currentIndex has passed the end.
CheckCompletePastTheEnd(st) ==
  IF st.cur > items /\ st.act = 0 /\ ~hasError
  THEN Resolve(st)
  ELSE st

\* A completion test that does not wait for the invocations in flight.
CheckCompleteIgnoringActive(st) ==
  IF st.cur >= items /\ ~hasError THEN Resolve(st) ELSE st

\* checkComplete()
CheckComplete(st) ==
  IF st.cur >= items /\ st.act = 0 /\ ~hasError
  THEN Resolve(st)
  ELSE st

\* An index taken after the increment: ++currentIndex.
NextIndexPreIncrement(st) == st.cur + 1

\* The index passed to runTask: the value of currentIndex++.
NextIndex(st) == st.cur

\* A store that fills the results array from its end.
ResultSlotFromTheEnd(index) == items - 1 - index

\* Where runTask stores the outcome of the invocation for `index`.
ResultSlot(index) == index

\* options?.onProgress?.(completedCount, items.length) throws: st is the state
\* just after the invocation was made.
ProgressThrows(st) ==
  \/ onProgress = "throws"
  \/ onProgress = "throws_first" /\ Len(st.prog) = 1

\* The finally block of runTask, run on the state s that st denotes. An
\* exception thrown by the callback leaves the block at updateProgress(): the
\* promise of this runTask rejects, and nothing awaits it.
Finally(st) ==
  CHOOSE after \in
    { LET s1 == [s EXCEPT !.act = @ - 1]
          s2 == UpdateProgress(s1)
          s3 == CheckComplete(s2)
      IN  IF ProgressThrows(s2) THEN s2
          ELSE IF s3.cur < items /\ s3.act < maxConcurrent /\ ~hasError
          THEN RunTask([s3 EXCEPT !.cur = @ + 1], NextIndex(s3))
          ELSE s3 : s \in {st} } : TRUE

\* runTask(index) up to the point where it suspends on the mapper's promise;
\* a mapper that throws synchronously runs catch and finally at once.
RunTask(st, index) ==
  IF hasError THEN st
  ELSE
    CHOOSE after \in
      { LET s1 == [s EXCEPT !.act = @ + 1,
                           !.calls = Append(@, i),
                           !.high = Max(@, s.act + 1)]
        IN  IF mapperKind[i] = "throws"
            THEN Finally([s1 EXCEPT !.out[i] = "fail",
                                    !.res[ResultSlot(i)] =
                                       FailureResult(i, MapperError(i))])
            ELSE [s1 EXCEPT !.pend = @ \cup {i}] : s \in {st}, i \in {index} } : TRUE

\* A loop that passes its own counter i to runTask and leaves currentIndex alone.
RECURSIVE InitialBatchByLoopCounter(_, _)
InitialBatchByLoopCounter(st, n) ==
  IF n = 0 THEN st
  ELSE RunTask(InitialBatchByLoopCounter(st, n - 1), n - 1)

\* for (let i = 0; i < initialBatch; i++) { const index = currentIndex++; runTask(index) }
RECURSIVE InitialBatch(_, _)
InitialBatch(st, n) ==
  IF n = 0 THEN st
  ELSE CHOOSE after \in
         { InitialBatch(RunTask([s EXCEPT !.cur = @ + 1], NextIndex(s)), n - 1) :
             s \in {st} } : TRUE

Store(st) ==
  /\ currentIndex' = st.cur
  /\ activeCount' = st.act
  /\ results' = st.res
  /\ pending' = st.pend
  /\ calls' = st.calls
  /\ progress' = st.prog
  /\ highWater' = st.high
  /\ outcome' = st.out
  /\ resolvedAt' = st.at
  /\ pc' = IF st.resolved THEN "resolved" ELSE "running"

\* A pool that starts every item at once.
InitialBatchSizeUnbounded == items

\* const initialBatch = Math.min(maxConcurrent, items.length)
InitialBatchSize == Min(maxConcurrent, items)

\* The state in which the call of mapWithConcurrency returns its promise (or,
\* for an empty input, the empty results array).
AfterCall ==
  IF items = 0
  THEN Resolve(MapState)
  ELSE InitialBatch(MapState, InitialBatchSize)

\* The state after the mapper's promise for `index` has settled and the rest
\* of runTask has run: the result is recorded, then the finally block.
AfterSettle(index, ok) ==
  LET r  == IF ok THEN SuccessResult(index, MapperData(index))
                  ELSE FailureResult(index, MapperError(index))
  IN  Finally([MapState EXCEPT !.pend = @ \ {index},
                               !.out[index] = IF ok THEN "ok" ELSE "fail",
                               !.res[ResultSlot(index)] = r])

\* mapWithConcurrency(items, mapper, options), called with an arbitrary mapper.
Call ==
  /\ pc = "new"
  /\ \E st \in {AfterCall} : Store(st)
  /\ UNCHANGED <<toolVars, mapInputs, fetchVars, trimVars>>

\* The promise of an arbitrary mapper settles (resolves when ok, rejects otherwise).
Settle(index, ok) ==
  /\ index \in pending
  /\ \E st \in {AfterSettle(index, ok)} : Store(st)
  /\ UNCHANGED <<toolVars, mapInputs, fetchVars, trimVars>>

Absent == [content |-> <<>>, warnings |-> <<"absent">>]

\* The handler of search_knowledge has not been entered.
TrimIdle ==
  /\ tpc = "idle"
  /\ hits = <<>>
  /\ hitWarnings = <<>>
  /\ baseBytes = 0
  /\ upstreamComplete = "undefined"
  /\ content = <<>>
  /\ metaHits = <<>>
  /\ complete = "undefined"
  /\ size = 0
  /\ ti = 0
  /\ dropped = 0
  /\ isError = "undefined"
  /\ pass = 1
  /\ first = <<>>

\* The handler of search_knowledge has not been called.
HandlerIdle ==
  /\ hpc = "idle"
  /\ caught = <<>>
  /\ hresult = <<>>

\* No call of open_in_editor has been made and the module has just been loaded.
EditorIdle ==
  /\ now = 0
  /\ cache = <<>>
  /\ ecall = <<>>
  /\ lastRefresh = <<>>

\* The handler of file_write has not been called.
WriteIdle ==
  /\ wpc = "idle"
  /\ winput = <<>>
  /\ target = "absent"
  /\ previous = "absent"
  /\ temp = "absent"
  /\ backup = "absent"
  /\ wfailed = "none"
  /\ wresult = <<>>

\* No snippet request has been prepared.
RangeIdle ==
  /\ rpc = "idle"
  /\ hit = <<>>
  /\ request = <<>>
  /\ sliceCall = <<>>
  /\ snippetResult = <<>>
  /\ thit = <<>>
  /\ lineRange = <<>>

ToolIdle == HandlerIdle /\ EditorIdle /\ WriteIdle /\ RangeIdle

\* The state before the call, for a progress callback of one of the given kinds.
MapNew(kinds) ==
  /\ pc = "new"
  /\ items \in 0 .. MaxItems
  /\ optMax \in OptMaxValues
  /\ onProgress \in kinds
  /\ mapperKind \in [Idx -> {"throws", "async"}]
  /\ \A i \in Idx : i > 2 * items => mapperKind[i] = "async"
  /\ currentIndex = 0
  /\ activeCount = 0
  /\ results = [i \in Idx |-> Undefined]
  /\ pending = {}
  /\ calls = <<>>
  /\ progress = <<>>
  /\ highWater = 0
  /\ outcome = [i \in Idx |-> "none"]
  /\ resolvedAt = <<>>
  /\ fpc = "new"
  /\ retryAttempts = 0
  /\ aborted = FALSE
  /\ phase = [i \in Idx |-> "idle"]
  /\ attempt = [i \in Idx |-> 0]
  /\ fetchCalls = [i \in Idx |-> 0]
  /\ timedOut = [i \in Idx |-> 0]
  /\ snippetMap = [i \in Idx |-> Absent]
  /\ inFlightAtCancel = {}
  /\ settleOrder = <<>>
  /\ delays = [i \in Idx |-> <<>>]
  /\ ToolIdle
  /\ TrimIdle

\* A progress callback that returns normally (or none at all).
MapInit == MapNew({"returns"})

\* A progress callback that may throw.
ProgressKinds == {"returns", "throws", "throws_first"}

ProgressInit == MapNew(ProgressKinds)

MapNext ==
  \/ Call
  \/ \E index \in Idx, ok \in BOOLEAN : Settle(index, ok)

SpecMap == MapInit /\ [][MapNext]_vars

\* The call is made, and every mapper invocation eventually settles: the
\* pending promise of an index does not stay pending for ever.
SpecMapLive ==
  /\ MapInit
  /\ [][MapNext]_vars
  /\ WF_vars(Call)
  /\ \A index \in Idx : WF_vars(\E ok \in BOOLEAN : Settle(index, ok))

\* The same, for a progress callback that may throw.
SpecProgressLive ==
  /\ ProgressInit
  /\ [][MapNext]_vars
  /\ WF_vars(Call)
  /\ \A index \in Idx : WF_vars(\E ok \in BOOLEAN : Settle(index, ok))

----------------------------------------------------------------------------
(* fetchSnippetsInParallel *)
(* The debug log lines written inside the retry loop are taken to be        *)
(* written: an attempt ends with the outcome of its restGetFileSlice call.  *)

MaxRetry == 2

\* The failure placeholder: { content: "", warnings: ["Failed to load snippet"] }
Placeholder == [content |-> <<>>, warnings |-> <<"Failed to load snippet">>]

\* The entry built from a successful TaskResult: the fetched content, and the
\* warnings of the remote response (none here).
SnippetSuccess(data) == [content |-> data, warnings |-> <<>>]

\* A transformation that leaves the slot of a failed request undefined.
SnippetEntryUndefinedOnFailure(result) ==
  IF result.success /\ result.data # <<>>
  THEN SnippetSuccess(result.data)
  ELSE Absent

\* One step of results.forEach((result, index) => ...): the entry of snippetMap.
SnippetEntry(result) ==
  IF result.success /\ result.data # <<>>
  THEN SnippetSuccess(result.data)
  ELSE Placeholder

\* results.forEach(...) visits the array's defined entries.
TransformResults(res) ==
  [i \in Idx |-> IF res[i] # Undefined THEN SnippetEntry(res[i]) ELSE Absent]

\* The mapper starts for the indices runTask has just taken: attempt = 0 and
\* the first restGetFileSlice call (the loop never consults options.signal).
StartMappers(st) ==
  LET new == st.pend \ pending
  IN  /\ phase' = [i \in Idx |-> IF i \in new THEN "fetching" ELSE phase[i]]
      /\ attempt' = [i \in Idx |-> IF i \in new THEN 0 ELSE attempt[i]]
      /\ fetchCalls' = [i \in Idx |-> IF i \in new THEN 1 ELSE fetchCalls[i]]

\* The mapper of request i settles (returns when ok, throws otherwise); the
\* rest of runTask then runs and may start the mappers of further requests.
MapperSettles(i, ok) ==
  LET st == AfterSettle(i, ok)
      new == st.pend \ pending
  IN  /\ Store(st)
      /\ phase' = [j \in Idx |-> IF j = i THEN "settled"
                                 ELSE IF j \in new THEN "fetching" ELSE phase[j]]
      /\ attempt' = [j \in Idx |-> IF j \in new THEN 0 ELSE attempt[j]]
      /\ fetchCalls' = [j \in Idx |-> IF j \in new THEN 1 ELSE fetchCalls[j]]
      /\ settleOrder' = Append(settleOrder, i)

\* fetchSnippetsInParallel(requests, options) up to the await of mapWithConcurrency.
FetchCall ==
  /\ fpc = "new"
  /\ pc = "new"
  /\ Store(AfterCall)
  /\ StartMappers(AfterCall)
  /\ fpc' = "mapping"
  /\ UNCHANGED <<toolVars, mapInputs, retryAttempts, aborted,
                 inFlightAtCancel, timedOut, snippetMap, fetchLog, trimVars>>

\* restGetFileSlice resolves: the mapper returns { result, metadata }.
AttemptSucceeds(i) ==
  /\ phase[i] = "fetching"
  /\ MapperSettles(i, TRUE)
  /\ UNCHANGED <<toolVars, mapInputs, fpc, retryAttempts, aborted,
                 inFlightAtCancel, timedOut, snippetMap, delays, trimVars>>

\* A retry test that allows one attempt more.
WillRetryOneMore(i) == attempt[i] <= retryAttempts

\* A retry test that gives up one attempt early.
WillRetryOneLess(i) == attempt[i] < retryAttempts - 1

\* Whether the catch block goes on to another attempt after a non-abort error.
WillRetry(i) == attempt[i] < retryAttempts

\* A delay that is the same after every attempt.
BackoffDelayConstant(a) == 100

\* const delay = Math.pow(2, attempt) * 100
BackoffDelay(a) == (2 ^ a) * 100

\* restGetFileSlice rejects with an error whose name is not "AbortError":
\* back off and go round the loop, or leave the loop and throw lastError.
AttemptFails(i) ==
  /\ phase[i] = "fetching"
  /\ IF WillRetry(i)
     THEN /\ phase' = [phase EXCEPT ![i] = "backoff"]
          /\ delays' = [delays EXCEPT ![i] = Append(@, BackoffDelay(attempt[i]))]
          /\ UNCHANGED <<mapVars, attempt, fetchCalls, settleOrder>>
     ELSE /\ MapperSettles(i, FALSE)
          /\ UNCHANGED <<mapInputs, delays>>
  /\ UNCHANGED <<toolVars, fpc, retryAttempts, aborted, inFlightAtCancel, timedOut,
                 snippetMap, trimVars>>

\* The per-attempt timer fires: controller.abort() makes the fetch reject with
\* an AbortError, which the catch block rethrows ("Don't retry for aborted signals").
AttemptTimesOut(i) ==
  /\ phase[i] = "fetching"
  /\ MapperSettles(i, FALSE)
  /\ timedOut' = [timedOut EXCEPT ![i] = @ + 1]
  /\ UNCHANGED <<toolVars, mapInputs, fpc, retryAttempts, aborted,
                 inFlightAtCancel, snippetMap, delays, trimVars>>

\* The backoff delay ends: attempt++ and the next restGetFileSlice call.
BackoffElapses(i) ==
  /\ phase[i] = "backoff"
  /\ phase' = [phase EXCEPT ![i] = "fetching"]
  /\ attempt' = [attempt EXCEPT ![i] = @ + 1]
  /\ fetchCalls' = [fetchCalls EXCEPT ![i] = @ + 1]
  /\ UNCHANGED <<toolVars, mapVars, fpc, retryAttempts, aborted, inFlightAtCancel, timedOut,
                 snippetMap, fetchLog, trimVars>>

\* The caller's AbortSignal fires (options.signal is bound to _signal and never read).
ExternalAbort ==
  /\ ~aborted
  /\ fpc # "done"
  /\ aborted' = TRUE
  /\ inFlightAtCancel' = {i \in Idx : phase[i] = "fetching"}
  /\ UNCHANGED <<toolVars, mapVars, fpc, retryAttempts, phase, attempt, fetchCalls, timedOut,
                 snippetMap, fetchLog, trimVars>>

\* mapWithConcurrency has resolved: build snippetMap and return it.
FetchReturn ==
  /\ fpc = "mapping"
  /\ pc = "resolved"
  /\ snippetMap' = TransformResults(results)
  /\ fpc' = "done"
  /\ UNCHANGED <<toolVars, mapVars, retryAttempts, aborted, inFlightAtCancel, phase, attempt,
                 fetchCalls, timedOut, fetchLog, trimVars>>

FetchInit ==
  /\ pc = "new"
  /\ items \in 0 .. MaxItems
  /\ optMax \in {<<1>>, <<2>>, <<DefaultMaxConcurrent>>}
  /\ onProgress = "returns"
  /\ mapperKind = [i \in Idx |-> "async"]
  /\ currentIndex = 0
  /\ activeCount = 0
  /\ results = [i \in Idx |-> Undefined]
  /\ pending = {}
  /\ calls = <<>>
  /\ progress = <<>>
  /\ highWater = 0
  /\ outcome = [i \in Idx |-> "none"]
  /\ resolvedAt = <<>>
  /\ fpc = "new"
  /\ retryAttempts \in 0 .. MaxRetry
  /\ aborted \in BOOLEAN
  /\ phase = [i \in Idx |-> "idle"]
  /\ attempt = [i \in Idx |-> 0]
  /\ fetchCalls = [i \in Idx |-> 0]
  /\ timedOut = [i \in Idx |-> 0]
  /\ snippetMap = [i \in Idx |-> Absent]
  /\ inFlightAtCancel = {}
  /\ settleOrder = <<>>
  /\ delays = [i \in Idx |-> <<>>]
  /\ ToolIdle
  /\ TrimIdle

FetchNext ==
  \/ FetchCall
  \/ \E i \in Idx : AttemptSucceeds(i)
  \/ \E i \in Idx : AttemptFails(i)
  \/ \E i \in Idx : AttemptTimesOut(i)
  \/ \E i \in Idx : BackoffElapses(i)
  \/ ExternalAbort
  \/ FetchReturn

SpecFetch == FetchInit /\ [][FetchNext]_vars

----------------------------------------------------------------------------
(* search_knowledge: assembly of the result and payload trimming *)

MaxHits == 2

CAP_BYTES == 70 * 1024
SHRUNK_SNIPPET_CHAR_CAP == 600
MIN_SNIPPET_CHAR_FLOOR == 300

\* Lengths of the pieces of text the model does not vary: repo plus path of a
\* hit, and the serialized skeletons of the objects the handler builds.
NameLen == 20
TextBlockBytes == 26
ResourceBlockBytes == 88
MetaHitBytes == 84

\* Snippet texts: a class of characters and a length in UTF-16 code units.
\*   "ascii": one byte per unit;  "esc": a character JSON escapes in two bytes;
\*   "pair":  astral characters, two units and four bytes each, of which a
\*            prefix of odd length ends in a lone surrogate that JSON.stringify
\*            writes as a six-byte \uXXXX escape;
\*   "apair": one ASCII character followed by astral characters, so that a
\*            prefix of even length ends in a lone surrogate.
SnippetChoices ==
  { [kind |-> "ascii", len |-> 0],
    [kind |-> "ascii", len |-> 450],
    [kind |-> "ascii", len |-> 700],
    [kind |-> "ascii", len |-> 30000],
    [kind |-> "pair",  len |-> 30000],
    [kind |-> "apair", len |-> 601] }

\* Sizes of what trimming never touches (summary text, isError, the _meta
\* fields other than hits and complete), from small to more than the cap.
BaseChoices ==
  { 500, CAP_BYTES - 1500, CAP_BYTES - 600, CAP_BYTES - 300, CAP_BYTES - 270,
    CAP_BYTES + 100 }

\* Buffer.byteLength(JSON.stringify(s), "utf8") without the quotes, for the
\* first k units of a text of the given class.
Bytes(kind, k) ==
  CASE kind = "ascii" -> k
    [] kind = "esc"   -> 2 * k
    [] kind = "pair"  -> 4 * (k \div 2) + 6 * (k % 2)
    [] kind = "apair" -> IF k = 0 THEN 0
                         ELSE 1 + 4 * ((k - 1) \div 2) + 6 * ((k - 1) % 2)

\* buildPromptReady: per hit the citation header, the opening fence, the code
\* and the closing fence, each followed by "\n".
PromptParts(h) ==
  << [kind |-> "ascii", len |-> NameLen + 9], [kind |-> "esc", len |-> 1],
     [kind |-> "ascii", len |-> 5],           [kind |-> "esc", len |-> 1],
     [kind |-> h.kind,  len |-> h.len],       [kind |-> "esc", len |-> 1],
     [kind |-> "ascii", len |-> 3],           [kind |-> "esc", len |-> 1] >>

RECURSIVE buildPromptReady(_)
buildPromptReady(hs) ==
  IF hs = <<>> THEN <<>> ELSE PromptParts(Head(hs)) \o buildPromptReady(Tail(hs))

RECURSIVE TextLength(_)
TextLength(parts) ==
  IF parts = <<>> THEN 0 ELSE Head(parts).len + TextLength(Tail(parts))

\* Serialized bytes of what the first k units of a text made of `parts` take
\* from its first i parts.
RECURSIVE PrefixBytesUpTo(_, _, _)
PrefixBytesUpTo(parts, k, i) ==
  IF i = 0 THEN 0
  ELSE Bytes(parts[i].kind,
             Min(Max(k - TextLength(SubSeq(parts, 1, i - 1)), 0), parts[i].len))
       + PrefixBytesUpTo(parts, k, i - 1)

\* Serialized bytes of the first k units of a text made of `parts`.
PrefixBytes(parts, k) == PrefixBytesUpTo(parts, k, Len(parts))

\* Serialized bytes of the first k units of the prompt-ready text.
PromptReadyBytes(k) ==
  [parts \in {buildPromptReady(hits)} |-> PrefixBytes(parts, k)][buildPromptReady(hits)]

\* Serialized bytes of one content block.
BlockBytes(b) ==
  CASE b.type = "summary"  -> TextBlockBytes
    [] b.type = "text"     -> TextBlockBytes + PromptReadyBytes(b.len)
    [] b.type = "resource" -> ResourceBlockBytes + NameLen + Bytes(hits[b.hit].kind, b.len)

\* Serialized bytes of the complete field of _meta (omitted when undefined).
CompleteBytes(c) ==
  CASE c = "undefined" -> 0
    [] c = "true"      -> 16
    [] c = "false"     -> 17

RECURSIVE SumBlocks(_)
SumBlocks(blocks) ==
  IF blocks = <<>> THEN 0 ELSE BlockBytes(Head(blocks)) + SumBlocks(Tail(blocks))

\* Buffer.byteLength(JSON.stringify(result), "utf8") for the result made of
\* these content blocks, these metaHits and this complete flag.
SerializedBytes(blocks, mh, c) ==
  baseBytes + SumBlocks(blocks) + Len(mh) * (MetaHitBytes + NameLen) + CompleteBytes(c)

\* A measurement of result.content alone.
jsonSizeBytesOfContent(blocks, mh, c) == SumBlocks(blocks)

\* jsonSizeBytes(result)
jsonSizeBytes(blocks, mh, c) == SerializedBytes(blocks, mh, c)

\* The content blocks as assembled: summary, prompt-ready text when it is not
\* empty, then one resource block per hit carrying the whole snippet.
AssembledContent(hs) ==
  <<[type |-> "summary", hit |-> 0, len |-> 0]>>
  \o (IF TextLength(buildPromptReady(hs)) > 0
      THEN <<[type |-> "text", hit |-> 0, len |-> TextLength(buildPromptReady(hs))]>>
      ELSE <<>>)
  \o [i \in 1 .. Len(hs) |-> [type |-> "resource", hit |-> i, len |-> hs[i].len]]

\* The fields of one entry of metaHits, with the hit's field each is copied from.
AssembledMetaHitFields ==
  [chunk_id |-> "chunk_id", repo |-> "repo", path |-> "path",
   start_line |-> "start_line", end_line |-> "end_line", score |-> "score"]

\* const metaHits = transformedRes.hits.map(...): an entry identifies its hit.
AssembledMetaHits(hs) == [i \in 1 .. Len(hs) |-> i]

\* Lines 385-431: build content, metaHits and result, and measure it.
Assemble ==
  /\ tpc = "hits"
  /\ \E c \in {AssembledContent(hits)} :
       /\ content' = c
       /\ size' = jsonSizeBytes(c, AssembledMetaHits(hits), upstreamComplete)
  /\ metaHits' = AssembledMetaHits(hits)
  /\ complete' = upstreamComplete
  /\ isError' = "false"
  /\ tpc' = "step1"
  /\ UNCHANGED <<toolVars, mapVars, fetchVars, hitWarnings, pass, first, hits, baseBytes,
                 upstreamComplete, ti, dropped>>

\* prIndex === 1: content[1] exists and is a text block (content[2] here).
HasPromptReady == Len(content) > 1 /\ content[2].type = "text"

\* A cut that rounds up instead of down.
CutRoundingUp(len) == Max((len * 9 + 9) \div 10, 0)

\* A cut that halves the text.
CutToHalf(len) == Max(len \div 2, 0)

\* Math.max(Math.floor(prText.length * 0.9), 0)
Cut(len) == Max((len * 9) \div 10, 0)

\* A loop that stops trimming the prompt-ready text at a floor.
Step1ContinueToFloor ==
  size > CAP_BYTES /\ HasPromptReady /\ content[2].len > MIN_SNIPPET_CHAR_FLOOR

\* while (prText.length > 0 && size > CAP_BYTES), inside the two ifs.
Step1Continue == size > CAP_BYTES /\ HasPromptReady /\ content[2].len > 0

\* Step 1, one iteration of the while loop.
Step1Cut ==
  /\ tpc = "step1"
  /\ Step1Continue
  /\ LET c == [content EXCEPT ![2].len = Cut(@)]
     IN  /\ content' = c
         /\ size' = jsonSizeBytes(c, metaHits, complete)
  /\ UNCHANGED <<toolVars, mapVars, fetchVars, hitWarnings, pass, first, isError, tpc, hits,
                 baseBytes, upstreamComplete, metaHits, complete, ti, dropped>>

\* Step 1 is over (or skipped).
Step1Exit ==
  /\ tpc = "step1"
  /\ ~Step1Continue
  /\ tpc' = "step2a"
  /\ ti' = 0
  /\ UNCHANGED <<toolVars, mapVars, fetchVars, hitWarnings, pass, first, isError, hits,
                 baseBytes, upstreamComplete, content, metaHits, complete, size,
                 dropped>>

\* A pass of step 2 that caps every resource text at its first visit.
CapEveryBlock(i, cap) ==
  LET c == [k \in 1 .. Len(content) |->
              IF content[k].type = "resource" /\ content[k].len > cap
              THEN [content[k] EXCEPT !.len = cap]
              ELSE content[k]]
  IN  /\ content' = c
      /\ size' = jsonSizeBytes(c, metaHits, complete)

\* One iteration of a pass of step 2 at JS index i: a resource text longer
\* than `cap` is sliced to `cap` and the size measured again.
CapBlock(i, cap) ==
  LET b == content[i + 1]
  IN  IF b.type = "resource" /\ b.len > cap
      THEN /\ content' = [content EXCEPT ![i + 1].len = cap]
           /\ size' = jsonSizeBytes([content EXCEPT ![i + 1].len = cap], metaHits, complete)
      ELSE UNCHANGED <<content, size>>

Step2aVisit ==
  /\ tpc = "step2a"
  /\ ti < Len(content) /\ size > CAP_BYTES
  /\ CapBlock(ti, SHRUNK_SNIPPET_CHAR_CAP)
  /\ ti' = ti + 1
  /\ UNCHANGED <<toolVars, mapVars, fetchVars, hitWarnings, pass, first, isError, tpc, hits,
                 baseBytes, upstreamComplete, metaHits, complete, dropped>>

Step2aExit ==
  /\ tpc = "step2a"
  /\ ~(ti < Len(content) /\ size > CAP_BYTES)
  /\ tpc' = "step2b"
  /\ ti' = 0
  /\ UNCHANGED <<toolVars, mapVars, fetchVars, hitWarnings, pass, first, isError, hits,
                 baseBytes, upstreamComplete, content, metaHits, complete, size,
                 dropped>>

Step2bVisit ==
  /\ tpc = "step2b"
  /\ ti < Len(content) /\ size > CAP_BYTES
  /\ CapBlock(ti, MIN_SNIPPET_CHAR_FLOOR)
  /\ ti' = ti + 1
  /\ UNCHANGED <<toolVars, mapVars, fetchVars, hitWarnings, pass, first, isError, tpc, hits,
                 baseBytes, upstreamComplete, metaHits, complete, dropped>>

Step2bExit ==
  /\ tpc = "step2b"
  /\ ~(ti < Len(content) /\ size > CAP_BYTES)
  /\ tpc' = "step3"
  /\ ti' = Len(hits) - 1
  /\ UNCHANGED <<toolVars, mapVars, fetchVars, hitWarnings, pass, first, isError, hits,
                 baseBytes, upstreamComplete, content, metaHits, complete, size,
                 dropped>>

\* An index that skips the summary only.
BlockIdxSkippingSummaryOnly(i) == i + 1

\* const blockIdx = i + 2
BlockIdx(i) == i + 2

\* A step 3 that puts an empty text block in the place of the resource block.
EmptyTextBlockInstead(b) == [type |-> "text", hit |-> 0, len |-> 0]

\* block.resource.text = "": the other fields of the block stay.
EmptiedBlock(b) == [b EXCEPT !.len = 0]

\* Step 3, one iteration: the resource text of hit i becomes "".
Step3Visit ==
  /\ tpc = "step3"
  /\ ti >= 0 /\ size > CAP_BYTES
  /\ LET k == BlockIdx(ti) + 1
     IN  IF k <= Len(content) /\ content[k].type = "resource"
         THEN /\ content' = [content EXCEPT ![k] = EmptiedBlock(content[k])]
              /\ size' = jsonSizeBytes([content EXCEPT ![k] = EmptiedBlock(content[k])],
                                       metaHits, complete)
         ELSE UNCHANGED <<content, size>>
  /\ ti' = ti - 1
  /\ UNCHANGED <<toolVars, mapVars, fetchVars, hitWarnings, pass, first, isError, tpc, hits,
                 baseBytes, upstreamComplete, metaHits, complete, dropped>>

Step3Exit ==
  /\ tpc = "step3"
  /\ ~(ti >= 0 /\ size > CAP_BYTES)
  /\ tpc' = "step4"
  /\ UNCHANGED <<toolVars, mapVars, fetchVars, hitWarnings, pass, first, isError, hits,
                 baseBytes, upstreamComplete, content, metaHits, complete, size, ti,
                 dropped>>

\* A step 4 that is entered whatever the size is.
Step4EnterWhateverTheSize ==
  /\ tpc = "step4"
  /\ tpc' = "step4loop"
  /\ UNCHANGED <<toolVars, mapVars, fetchVars, hitWarnings, pass, first, isError, hits,
                 baseBytes, upstreamComplete, content, metaHits, complete, size, ti,
                 dropped>>

\* if (size > CAP_BYTES) { ... } of step 4.
Step4Enter ==
  /\ tpc = "step4"
  /\ tpc' = IF size > CAP_BYTES THEN "step4loop" ELSE "done"
  /\ UNCHANGED <<toolVars, mapVars, fetchVars, hitWarnings, pass, first, isError, hits,
                 baseBytes, upstreamComplete, content, metaHits, complete, size, ti,
                 dropped>>

\* Array.prototype.pop(): removes the last entry, if there is one.
Pop(s) == IF s = <<>> THEN s ELSE SubSeq(s, 1, Len(s) - 1)

\* A drop that forgets the metadata entry.
MetaHitsKept(mh) == mh

\* metaHits.pop()
MetaHitsAfterDrop(mh) == Pop(mh)

\* A loop of step 4 that goes on while any block is left.
Step4ContinueToEmpty == Len(content) > 0 /\ size > CAP_BYTES

\* while (result.content.length > 1 && size > CAP_BYTES)
Step4Continue == Len(content) > 1 /\ size > CAP_BYTES

\* Step 4, one iteration: result.content.pop(); metaHits.pop(); measure.
Step4Drop ==
  /\ tpc = "step4loop"
  /\ Step4Continue
  /\ content' = Pop(content)
  /\ metaHits' = MetaHitsAfterDrop(metaHits)
  /\ size' = jsonSizeBytes(Pop(content), MetaHitsAfterDrop(metaHits), complete)
  /\ dropped' = dropped + 1
  /\ UNCHANGED <<toolVars, mapVars, fetchVars, hitWarnings, pass, first, isError, tpc, hits,
                 baseBytes, upstreamComplete, complete, ti>>

\* After the loop of step 4: result._meta = { ...result._meta, complete: false }
Step4Mark ==
  /\ tpc = "step4loop"
  /\ ~Step4Continue
  /\ complete' = "false"
  /\ tpc' = "done"
  /\ UNCHANGED <<toolVars, mapVars, fetchVars, hitWarnings, pass, first, isError, hits,
                 baseBytes, upstreamComplete, content, metaHits, size, ti, dropped>>

\* const k = transformedRes.hits.length: the number the summary text states
\* ("Found k results"). The text is built once, before trimming.
SummaryCount == Len(hits)

\* The _snippet_warnings a list of hits can carry: none for a fetched snippet,
\* the placeholder's warning for a hit whose snippet is empty because its fetch
\* failed.
WarningsFor(hs) ==
  {w \in [1 .. Len(hs) -> {<<>>, Placeholder.warnings}] :
     \A i \in 1 .. Len(hs) : w[i] # <<>> => hs[i].len = 0}

RECURSIVE SeqsUpTo(_, _)
SeqsUpTo(S, n) ==
  IF n = 0 THEN {<<>>}
  ELSE LET shorter == SeqsUpTo(S, n - 1)
       IN  shorter \cup {Append(s, x) : s \in {q \in shorter : Len(q) = n - 1}, x \in S}

TrimInit ==
  /\ pc = "new"
  /\ items = 0
  /\ optMax = <<>>
  /\ onProgress = "returns"
  /\ mapperKind = [i \in Idx |-> "async"]
  /\ currentIndex = 0
  /\ activeCount = 0
  /\ results = [i \in Idx |-> Undefined]
  /\ pending = {}
  /\ calls = <<>>
  /\ progress = <<>>
  /\ highWater = 0
  /\ outcome = [i \in Idx |-> "none"]
  /\ resolvedAt = <<>>
  /\ fpc = "new"
  /\ retryAttempts = 0
  /\ aborted = FALSE
  /\ phase = [i \in Idx |-> "idle"]
  /\ attempt = [i \in Idx |-> 0]
  /\ fetchCalls = [i \in Idx |-> 0]
  /\ timedOut = [i \in Idx |-> 0]
  /\ snippetMap = [i \in Idx |-> Absent]
  /\ inFlightAtCancel = {}
  /\ settleOrder = <<>>
  /\ delays = [i \in Idx |-> <<>>]
  /\ ToolIdle
  /\ tpc = "hits"
  /\ hits \in SeqsUpTo(SnippetChoices, MaxHits)
  /\ hitWarnings \in WarningsFor(hits)
  /\ baseBytes \in BaseChoices
  /\ upstreamComplete \in {"undefined", "true", "false"}
  /\ content = <<>>
  /\ metaHits = <<>>
  /\ complete = "undefined"
  /\ size = 0
  /\ ti = 0
  /\ dropped = 0
  /\ isError = "undefined"
  /\ pass = 1
  /\ first = <<>>

TrimNext ==
  \/ Assemble
  \/ Step1Cut
  \/ Step1Exit
  \/ Step2aVisit
  \/ Step2aExit
  \/ Step2bVisit
  \/ Step2bExit
  \/ Step3Visit
  \/ Step3Exit
  \/ Step4Enter
  \/ Step4Drop
  \/ Step4Mark

SpecTrim == TrimInit /\ [][TrimNext]_vars

\* The handler is one sequence of statements: whenever a next statement of the
\* trimming code exists, it is executed.  The behaviours checked are those
\* with responses that need every stage, down to one whose untouched part is
\* by itself over the budget.
TrimLiveInit ==
  /\ TrimInit
  /\ \A i \in 1 .. Len(hits) :
       hits[i] \in {[kind |-> "ascii", len |-> 700], [kind |-> "pair", len |-> 30000]}
  /\ baseBytes \in {CAP_BYTES - 300, CAP_BYTES + 100}

SpecTrimLive == TrimLiveInit /\ [][TrimNext]_vars /\ WF_vars(TrimNext)

----------------------------------------------------------------------------
(* search_knowledge: from the snippet fetch to the returned result *)

\* The snippet texts and upstream sizes the handler is run with below.
SearchSnippetChoices ==
  { [kind |-> "ascii", len |-> 450], [kind |-> "ascii", len |-> 30000] }

SearchBaseChoices == { 500, CAP_BYTES - 300 }

\* A merge that reads the neighbouring entry of snippetResults.
HitSnippetOfNextIndex(index, text) ==
  IF snippetMap[index + 1].content # <<>> THEN text ELSE [kind |-> "ascii", len |-> 0]

\* snippet: snippetResult?.content ?? "" for hit `index`, `text` being the
\* text of the content the remote call returned.
HitSnippet(index, text) ==
  IF snippetMap[index].content # <<>> THEN text ELSE [kind |-> "ascii", len |-> 0]

\* _snippet_warnings: snippetResult?.warnings
HitSnippetWarnings(index) == snippetMap[index].warnings

\* const transformedHits = hits.map((hit, index) => ...) once
\* fetchSnippetsInParallel has returned, for an upstream response of any size.
Merge ==
  /\ fpc = "done"
  /\ tpc = "idle"
  /\ \E texts \in [1 .. items -> SearchSnippetChoices] :
       hits' = [i \in 1 .. items |-> HitSnippet(i - 1, texts[i])]
  /\ hitWarnings' = [i \in 1 .. items |-> HitSnippetWarnings(i - 1)]
  /\ baseBytes' \in SearchBaseChoices
  /\ upstreamComplete' \in {"undefined", "true", "false"}
  /\ tpc' = "hits"
  /\ UNCHANGED <<toolVars, mapVars, fetchVars, content, metaHits, complete, size, ti,
                 dropped, isError, pass, first>>

SearchInit ==
  /\ FetchInit
  /\ items <= MaxHits
  /\ optMax \in {<<1>>, <<2>>}
  /\ retryAttempts <= 1
  /\ ~aborted

SearchNext ==
  \/ FetchCall
  \/ \E i \in Idx : AttemptSucceeds(i)
  \/ \E i \in Idx : AttemptFails(i)
  \/ \E i \in Idx : AttemptTimesOut(i)
  \/ \E i \in Idx : BackoffElapses(i)
  \/ FetchReturn
  \/ Merge
  \/ TrimNext

SpecSearch == SearchInit /\ [][SearchNext]_vars

----------------------------------------------------------------------------
(* The trimming procedure applied a second time to its own result *)

\* What a caller receives: the content blocks, _meta.hits and _meta.complete.
Returned == [content |-> content, metaHits |-> metaHits, complete |-> complete]

\* Lines 431-515 run again on the result they have produced: the result is
\* measured again and the four steps follow as before.
Reapply ==
  /\ tpc = "done"
  /\ pass = 1
  /\ first' = <<Returned>>
  /\ pass' = 2
  /\ size' = jsonSizeBytes(content, metaHits, complete)
  /\ tpc' = "step1"
  /\ UNCHANGED <<toolVars, mapVars, fetchVars, hitWarnings, isError, hits, baseBytes,
                 upstreamComplete, content, metaHits, complete, ti, dropped>>

RetrimNext ==
  \/ TrimNext
  \/ Reapply

SpecRetrim == TrimInit /\ [][RetrimNext]_vars

----------------------------------------------------------------------------
(* search_knowledge: the handler's try / catch around the whole call *)

\* What restSearch can throw: a RestError thrown by doFetch (with the code and
\* the remediation the upstream body carried), or an Error raised by fetch.
UpstreamErrors ==
  { [shape |-> "rest", code |-> c, remediation |-> r, at |-> "search"] :
      c \in {"invalid_json", "upstream_error"}, r \in {"absent", "empty", "upstream"} }
  \cup { [shape |-> "Error", code |-> "none", remediation |-> "absent", at |-> "search"] }

\* An Error instance thrown at stage `at` (a ZodError, a rejected log write).
ThrownError(at) ==
  [shape |-> "Error", code |-> "none", remediation |-> "absent", at |-> at]

\* const err = e?.error ? e : { error: { code: "unexpected_error", message } }
NormalizedError(e) ==
  IF e.shape = "rest" THEN e
  ELSE [e EXCEPT !.code = "unexpected_error", !.remediation = "absent"]

\* err.error?.remediation ?? (code === "invalid_json" ? ... : ...): the text
\* appended to the message, "empty" being the empty string.
Remediation(err) ==
  IF err.remediation # "absent" THEN err.remediation
  ELSE IF err.code = "invalid_json" THEN "non_json_hint" ELSE "default_hint"

\* `${message}${remediation ? " Remediation: " + remediation : ""}` in a single
\* text block, isError: true.
ErrorResult(e) ==
  [isError |-> TRUE,
   blocks |-> 1,
   hint |-> IF Remediation(NormalizedError(e)) = "empty" THEN "none"
            ELSE Remediation(NormalizedError(e))]

\* Entering the catch block: it runs up to its await of logError.
Catch(e) ==
  /\ caught' = <<e>>
  /\ hpc' = "catch"
  /\ hresult' = hresult

\* handler(args, signal) up to its first await: INPUT.parse, then restSearch.
HandlerCall(valid) ==
  /\ hpc = "idle"
  /\ IF valid
     THEN /\ hpc' = "searching"
          /\ UNCHANGED <<caught, hresult>>
     ELSE Catch(ThrownError("validation"))
  /\ UNCHANGED <<libVars, editorVars, writeVars>>

\* restSearch resolves: the handler reads res.hits and awaits the
\* "snippet_fetch_start" log line.
SearchResolves ==
  /\ hpc = "searching"
  /\ hpc' = "logging"
  /\ UNCHANGED <<caught, hresult, libVars, editorVars, writeVars>>

\* restSearch rejects with e.
SearchRejects(e) ==
  /\ hpc = "searching"
  /\ Catch(e)
  /\ UNCHANGED <<libVars, editorVars, writeVars>>

\* The "snippet_fetch_start" log write settles: appendFile resolves and the
\* handler goes on to fetchSnippetsInParallel, or it rejects.
StartLogSettles(ok) ==
  /\ hpc = "logging"
  /\ IF ok
     THEN /\ hpc' = "running"
          /\ UNCHANGED <<caught, hresult>>
     ELSE Catch(ThrownError("log"))
  /\ UNCHANGED <<libVars, editorVars, writeVars>>

\* Lines 337-515 of the handler: the snippet fetch, the merge and the trimming.
HandlerBody ==
  /\ hpc = "running"
  /\ SearchNext

\* The final "search_knowledge success" log write settles and the handler
\* returns result, or the write rejects.
FinalLogSettles(ok) ==
  /\ hpc = "running"
  /\ tpc = "done"
  /\ IF ok
     THEN /\ hresult' = <<[isError |-> FALSE, blocks |-> Len(content), hint |-> "none"]>>
          /\ hpc' = "returned"
          /\ caught' = caught
     ELSE Catch(ThrownError("final_log"))
  /\ UNCHANGED <<libVars, editorVars, writeVars>>

\* The catch block's await of logError settles: the error result is built and
\* returned, or the rejection leaves the handler.
CatchLogSettles(ok) ==
  /\ hpc = "catch"
  /\ IF ok
     THEN /\ hresult' = <<ErrorResult(caught[1])>>
          /\ hpc' = "returned"
     ELSE /\ hresult' = hresult
          /\ hpc' = "thrown"
  /\ UNCHANGED <<caught, libVars, editorVars, writeVars>>

HandlerInit == SearchInit

HandlerNext ==
  \/ \E valid \in BOOLEAN : HandlerCall(valid)
  \/ SearchResolves
  \/ \E e \in UpstreamErrors : SearchRejects(e)
  \/ \E ok \in BOOLEAN : StartLogSettles(ok)
  \/ HandlerBody
  \/ \E ok \in BOOLEAN : FinalLogSettles(ok)
  \/ \E ok \in BOOLEAN : CatchLogSettles(ok)

SpecHandler == HandlerInit /\ [][HandlerNext]_vars

----------------------------------------------------------------------------
(* open_in_editor: the cached repository list *)

MaxEditorCalls == 3
MaxMinutes == 11

\* One minute of Date.now().
MinuteMs == 60 * 1000

TTL_MS == 5 * 60 * 1000

\* An expiry test that already fires at an age of exactly TTL_MS.
isExpiredAtTtl(entry) == now - entry.ts >= TTL_MS

\* function isExpired(entry) { return Date.now() - entry.ts > TTL_MS }
isExpired(entry) == now - entry.ts > TTL_MS

\* if (!cache || isExpired(cache))
NeedsRefresh == cache = <<>> \/ isExpired(cache[1])

\* Whether a repository list was fetched successfully at most five minutes ago.
FreshlyRefreshed == lastRefresh # <<>> /\ now - lastRefresh[1] <= TTL_MS

\* The record kept of a call: where it stands, whether it issued
\* restListRepos, and what held when it reached the cache test.
CallRecord(st, remote, failed) ==
  [st |-> st, remote |-> remote, isError |-> failed,
   hadList |-> lastRefresh # <<>>, fresh |-> FreshlyRefreshed]

\* const repo = cache.repos.find(...); if (!repo) throw ...; the rest of the
\* handler builds the URI, writes its log line and returns.
Answer(found) == IF found THEN "returned" ELSE "returned_error"

\* handler(args, signal) up to its first await: INPUT.parse, the cache test,
\* then either restListRepos or the lookup in the cached list.
EditorCall(valid, found) ==
  /\ Len(ecall) < MaxEditorCalls
  /\ ecall' = Append(ecall,
       IF ~valid THEN CallRecord("returned_error", FALSE, TRUE)
       ELSE IF NeedsRefresh THEN CallRecord("fetching", TRUE, FALSE)
       ELSE CallRecord(Answer(found), FALSE, ~found))
  /\ UNCHANGED <<now, cache, lastRefresh, libVars, handlerVars,
                 writeVars>>

\* restListRepos resolves for call c: cache = { ts: Date.now(), repos }, then
\* the lookup.
ListReposResolves(c, found) ==
  /\ c \in 1 .. Len(ecall)
  /\ ecall[c].st = "fetching"
  /\ cache' = <<[ts |-> now]>>
  /\ lastRefresh' = <<now>>
  /\ ecall' = [ecall EXCEPT ![c].st = Answer(found), ![c].isError = ~found]
  /\ UNCHANGED <<now, libVars, handlerVars, writeVars>>

\* restListRepos rejects for call c: the catch block returns the error result.
ListReposRejects(c) ==
  /\ c \in 1 .. Len(ecall)
  /\ ecall[c].st = "fetching"
  /\ ecall' = [ecall EXCEPT ![c].st = "returned_error", ![c].isError = TRUE]
  /\ UNCHANGED <<now, cache, lastRefresh, libVars, handlerVars,
                 writeVars>>

\* A minute passes.
Tick ==
  /\ now + MinuteMs <= MaxMinutes * MinuteMs
  /\ now' = now + MinuteMs
  /\ UNCHANGED <<cache, ecall, lastRefresh, libVars, handlerVars,
                 writeVars>>

\* The module as loaded, no search under way.
EditorInit ==
  /\ MapInit
  /\ items = 0
  /\ optMax = <<>>
  /\ mapperKind = [i \in Idx |-> "async"]

EditorNext ==
  \/ \E valid \in BOOLEAN, found \in BOOLEAN : EditorCall(valid, found)
  \/ \E c \in 1 .. MaxEditorCalls, found \in BOOLEAN : ListReposResolves(c, found)
  \/ \E c \in 1 .. MaxEditorCalls : ListReposRejects(c)
  \/ Tick

SpecEditor == EditorInit /\ [][EditorNext]_vars

----------------------------------------------------------------------------
(* file_write: temporary file, rename, clean-up *)

\* The error result of the outer catch block.
WriteError == [isError |-> TRUE]

\* The result returned after fs.stat.
WriteSuccess == [isError |-> FALSE]

\* The outer catch block: return { content: [...], isError: true }.
WriteThrows(step) ==
  /\ wfailed' = step
  /\ wresult' = <<WriteError>>
  /\ wpc' = "returned"

\* const tempPath = ...; await fs.writeFile(tempPath, input.content, 'utf-8')
StartWrite ==
  /\ wpc' = "writeFile"
  /\ UNCHANGED <<wfailed, wresult>>

\* handler(args) up to its first await, for an input and a file system state:
\* INPUT.parse and the workspace boundary check, then fs.access(fullPath).
WriteCall(input, existing) ==
  /\ wpc = "idle"
  /\ winput' = <<input>>
  /\ target' = existing
  /\ previous' = existing
  /\ IF input.valid
     THEN /\ wpc' = "access"
          /\ UNCHANGED <<wfailed, wresult>>
     ELSE WriteThrows("validation")
  /\ UNCHANGED <<temp, backup, libVars, handlerVars, editorVars>>

\* fs.access settles: the file exists (a backup is copied when asked for), it
\* does not (ENOENT: directories are created when asked for), or the call
\* fails with another code, which is thrown again.
AccessSettles(r) ==
  /\ wpc = "access"
  /\ r \in (IF target = "absent" THEN {"ENOENT"} ELSE {"exists"}) \cup {"EACCES"}
  /\ CASE r = "exists" ->
            IF winput[1].create_backup
            THEN wpc' = "copyFile" /\ UNCHANGED <<wfailed, wresult>>
            ELSE StartWrite
       [] r = "ENOENT" ->
            IF winput[1].create_directories
            THEN wpc' = "mkdir" /\ UNCHANGED <<wfailed, wresult>>
            ELSE StartWrite
       [] r = "EACCES" -> WriteThrows("access")
  /\ UNCHANGED <<winput, target, previous, temp, backup, libVars,
                 handlerVars, editorVars>>

\* fs.copyFile(fullPath, backupPath) settles.
CopySettles(ok) ==
  /\ wpc = "copyFile"
  /\ IF ok
     THEN /\ backup' = target
          /\ StartWrite
     ELSE /\ backup' = backup
          /\ WriteThrows("copyFile")
  /\ UNCHANGED <<winput, target, previous, temp, libVars,
                 handlerVars, editorVars>>

\* fs.mkdir(dirname, { recursive: true }) settles.
MkdirSettles(ok) ==
  /\ wpc = "mkdir"
  /\ IF ok THEN StartWrite ELSE WriteThrows("mkdir")
  /\ UNCHANGED <<winput, target, previous, temp, backup, libVars,
                 handlerVars, editorVars>>

\* fs.writeFile(tempPath, ...) settles: the whole content is in the temporary
\* file and fs.rename is awaited; or it failed, leaving no file or a part of
\* the content, and the catch block awaits fs.unlink(tempPath).
WriteFileSettles(r) ==
  /\ wpc = "writeFile"
  /\ r \in {"complete", "partial", "absent"}
  /\ temp' = r
  /\ wpc' = IF r = "complete" THEN "rename" ELSE "unlink"
  /\ wfailed' = IF r = "complete" THEN wfailed ELSE "writeFile"
  /\ UNCHANGED <<wresult, winput, target, previous, backup, libVars,
                 handlerVars, editorVars>>

\* fs.rename(tempPath, fullPath) settles: the target is replaced in one step
\* and fs.stat is awaited; or nothing has moved and the catch block awaits
\* fs.unlink(tempPath).
RenameSettles(ok) ==
  /\ wpc = "rename"
  /\ IF ok
     THEN /\ target' = "new"
          /\ temp' = "absent"
          /\ wpc' = "stat"
          /\ wfailed' = wfailed
     ELSE /\ UNCHANGED <<target, temp>>
          /\ wpc' = "unlink"
          /\ wfailed' = "rename"
  /\ UNCHANGED <<wresult, winput, previous, backup, libVars,
                 handlerVars, editorVars>>

\* await fs.unlink(tempPath).catch(() => {}); throw error: the temporary file
\* is removed, or unlink has failed and its failure is swallowed; either way
\* the error reaches the outer catch block.
UnlinkSettles(ok) ==
  /\ wpc = "unlink"
  /\ ok => temp # "absent"
  /\ temp' = IF ok THEN "absent" ELSE temp
  /\ wresult' = <<WriteError>>
  /\ wpc' = "returned"
  /\ UNCHANGED <<wfailed, winput, target, previous, backup, libVars,
                 handlerVars, editorVars>>

\* fs.stat(fullPath) settles: the result is built and returned, or the
\* failure reaches the outer catch block.
StatSettles(ok) ==
  /\ wpc = "stat"
  /\ IF ok
     THEN /\ wresult' = <<WriteSuccess>>
          /\ wpc' = "returned"
          /\ wfailed' = wfailed
     ELSE WriteThrows("stat")
  /\ UNCHANGED <<winput, target, previous, temp, backup, libVars,
                 handlerVars, editorVars>>

WriteInputs == [valid : BOOLEAN, create_backup : BOOLEAN, create_directories : BOOLEAN]

WriteInit == EditorInit

WriteNext ==
  \/ \E input \in WriteInputs, existing \in {"absent", "old"} : WriteCall(input, existing)
  \/ \E r \in {"exists", "ENOENT", "EACCES"} : AccessSettles(r)
  \/ \E ok \in BOOLEAN : CopySettles(ok)
  \/ \E ok \in BOOLEAN : MkdirSettles(ok)
  \/ \E r \in {"complete", "partial", "absent"} : WriteFileSettles(r)
  \/ \E ok \in BOOLEAN : RenameSettles(ok)
  \/ \E ok \in BOOLEAN : UnlinkSettles(ok)
  \/ \E ok \in BOOLEAN : StatSettles(ok)

SpecWrite == WriteInit /\ [][WriteNext]_vars

----------------------------------------------------------------------------
(* Line ranges: the snippet request of a hit, the range fetched for it, the
   metadata kept in snippetMap, the transformed hit and its citation header *)

MaxLine == 3
MaxSpan == 1
MaxMargin == 2

\* An optional number: <<>> when missing, else <<n>>.
Margins == {<<>>} \cup {<<n>> : n \in 0 .. MaxMargin}

\* The hits of the upstream response: 1-based line ranges.
RangeHits ==
  {h \in [start_line : 1 .. MaxLine, end_line : 1 .. MaxLine + MaxSpan] :
     h.start_line <= h.end_line /\ h.end_line <= h.start_line + MaxSpan}

\* x || y for an optional number x: undefined and 0 are falsy.
OrElse(x, y) == IF x = <<>> \/ x = <<0>> THEN y ELSE x[1]

\* x || 0
OrZero(x) == OrElse(x, 0)

\* What the range actions leave alone.
outsideRange == <<mapVars, fetchVars, trimVars, handlerVars, editorVars, writeVars>>

\* One element of snippetRequests, built from the hit and the tool's input.
SnippetRequest(h, before, after) ==
  [startLine |-> h.start_line,
   endLine |-> h.end_line,
   contextLinesBefore |-> <<OrZero(before)>>,
   contextLinesAfter |-> <<OrZero(after)>>]

\* The handler of search_knowledge prepares the request of a hit, `before` and
\* `after` being input.context_lines_before and input.context_lines_after.
PrepareRequest(h, before, after) ==
  /\ rpc = "idle"
  /\ hit' = <<h>>
  /\ request' = <<SnippetRequest(h, before, after)>>
  /\ rpc' = "request"
  /\ UNCHANGED <<outsideRange, sliceCall, snippetResult, thit, lineRange>>

\* Another caller of fetchSnippetsInParallel passes a request of its own, whose
\* margins may be missing.
DirectRequest(h, before, after) ==
  /\ rpc = "idle"
  /\ request' = <<[startLine |-> h.start_line, endLine |-> h.end_line,
                   contextLinesBefore |-> before, contextLinesAfter |-> after]>>
  /\ rpc' = "request"
  /\ UNCHANGED <<outsideRange, hit, sliceCall, snippetResult, thit, lineRange>>

\* A fetch that starts at whatever the subtraction gives.
fetchStartLineUnclamped(req) == req.startLine - OrZero(req.contextLinesBefore)

\* const fetchStartLine = Math.max(1, request.startLine - contextBefore)
fetchStartLine(req) == Max(1, req.startLine - OrZero(req.contextLinesBefore))

\* const fetchEndLine = request.endLine + contextAfter
fetchEndLine(req) == req.endLine + OrZero(req.contextLinesAfter)

\* const metadata = { actualStartLine, actualEndLine, chunkStartLine, chunkEndLine }
Metadata(req) ==
  [actualStartLine |-> <<fetchStartLine(req)>>,
   actualEndLine |-> <<fetchEndLine(req)>>,
   chunkStartLine |-> <<req.startLine>>,
   chunkEndLine |-> <<req.endLine>>]

\* The entry of snippetMap: the content with the four metadata fields when the
\* fetch succeeded, the placeholder (which has none of them) otherwise.
RangeEntry(ok, metadata) ==
  IF ok
  THEN [content |-> "fetched",
        actualStartLine |-> metadata.actualStartLine,
        actualEndLine |-> metadata.actualEndLine,
        chunkStartLine |-> metadata.chunkStartLine,
        chunkEndLine |-> metadata.chunkEndLine]
  ELSE [content |-> "",
        actualStartLine |-> <<>>,
        actualEndLine |-> <<>>,
        chunkStartLine |-> <<>>,
        chunkEndLine |-> <<>>]

\* The mapper calls restGetFileSlice with the expanded range (every attempt
\* with the same one), and the outcome becomes the request's entry of snippetMap.
FetchSlice(ok) ==
  /\ rpc = "request"
  /\ \E req \in {request[1]} :
       /\ sliceCall' = <<[startLine |-> fetchStartLine(req), endLine |-> fetchEndLine(req)]>>
       /\ snippetResult' = <<RangeEntry(ok, Metadata(req))>>
  /\ rpc' = "fetched"
  /\ UNCHANGED <<outsideRange, hit, request, thit, lineRange>>

\* One element of transformedHits.
TransformedHit(h, sr) ==
  [start_line |-> h.start_line,
   end_line |-> h.end_line,
   snippet |-> sr.content,
   _context_start_line |-> sr.actualStartLine,
   _context_end_line |-> sr.actualEndLine,
   _chunk_start_line |-> OrElse(sr.chunkStartLine, h.start_line),
   _chunk_end_line |-> OrElse(sr.chunkEndLine, h.end_line)]

\* hits.map((hit, index) => ...) for this hit.
TransformHit ==
  /\ rpc = "fetched"
  /\ hit # <<>>
  /\ thit' = <<TransformedHit(hit[1], snippetResult[1])>>
  /\ rpc' = "hit"
  /\ UNCHANGED <<outsideRange, hit, request, sliceCall, snippetResult, lineRange>>

\* const hasContext =
\*   hit._context_start_line && hit._context_start_line !== hit.start_line
hasContext(h) ==
  /\ h._context_start_line # <<>>
  /\ h._context_start_line # <<0>>
  /\ h._context_start_line[1] # h.start_line

\* const lineRange = hasContext ? `L${_context_start_line}-L${_context_end_line}`
\*                              : `L${start_line}-L${end_line}`
LineRange(h) ==
  IF hasContext(h)
  THEN [from |-> h._context_start_line, to |-> h._context_end_line]
  ELSE [from |-> <<h.start_line>>, to |-> <<h.end_line>>]

\* buildPromptReady pushes the citation header of the hit.
RenderHeader ==
  /\ rpc = "hit"
  /\ lineRange' = <<LineRange(thit[1])>>
  /\ rpc' = "rendered"
  /\ UNCHANGED <<outsideRange, hit, request, sliceCall, snippetResult, thit>>

RangeInit == EditorInit

RangeNext ==
  \/ \E h \in RangeHits, before, after \in Margins : PrepareRequest(h, before, after)
  \/ \E h \in RangeHits, before, after \in Margins : DirectRequest(h, before, after)
  \/ \E ok \in BOOLEAN : FetchSlice(ok)
  \/ TransformHit
  \/ RenderHeader

SpecRange == RangeInit /\ [][RangeNext]_vars

----------------------------------------------------------------------------
(* Claims *)

\* The configured concurrency limit C (8 when the option is omitted).
ConfiguredLimit == IF optMax = <<>> THEN DefaultMaxConcurrent ELSE optMax[1]

\* C1: once mapWithConcurrency has resolved, the results array has length N
\* and entry i has index i and carries the outcome of the mapper invocation
\* made for item i, for every mapper (also one that throws synchronously).
C1_OrderedResultsOfLengthN ==
  pc = "resolved" =>
    /\ ArrayLength(results) = items
    /\ \A i \in 0 .. items - 1 :
         results[i] \in {SuccessResult(i, MapperData(i)), FailureResult(i, MapperError(i))}

\* C2: at every instant at most max(1, C) mapper invocations have started and
\* not settled, for C = 0, negative C and C larger than N as well.
C2_ConcurrencyBound ==
  /\ highWater <= Max(1, ConfiguredLimit)
  /\ activeCount <= Max(1, ConfiguredLimit)
  /\ Cardinality(pending) <= Max(1, ConfiguredLimit)

\* C2 witness: the limit is reached while further items wait.
C2_Witness ==
  /\ optMax = <<2>> /\ items >= 3
  /\ Cardinality(pending) = 2 /\ highWater = 2 /\ currentIndex < items

MinimalBytes ==
  baseBytes + TextBlockBytes
  + (IF Len(hits) > 0 THEN TextBlockBytes ELSE 0)
  + Len(hits) * (ResourceBlockBytes + NameLen)
  + Len(hits) * (MetaHitBytes + NameLen)
  + CompleteBytes(upstreamComplete)

ResourceBlocks == {k \in 1 .. Len(content) : content[k].type = "resource"}

\* C5: when the budget holds the minimal always-kept content, trimming ends
\* with the serialized size of the result within the budget.
C5_FitsWhenMinimalFits ==
  (tpc = "done" /\ MinimalBytes <= CAP_BYTES) =>
    SerializedBytes(content, metaHits, complete) <= CAP_BYTES

\* C5 witness: trimming ended within the budget only after emptying every
\* resource text.
C5_Witness ==
  /\ tpc = "done" /\ MinimalBytes <= CAP_BYTES
  /\ Len(hits) >= 2 /\ dropped = 0
  /\ \A k \in ResourceBlocks : content[k].len = 0 /\ hits[content[k].hit].len > 0

\* C6: the stages act in order: a resource text is shortened only when the
\* prompt-ready text is empty; step 3 empties a text only when every resource
\* text is at most the floor cap; step 4 drops a block only when every
\* resource text is empty.
C6_StagesInOrder ==
  /\ [](  (\E k \in ResourceBlocks : content[k].len < hits[content[k].hit].len)
          => (HasPromptReady => content[2].len = 0) )
  /\ [][ (tpc = "step3" /\ content' # content)
          => \A k \in ResourceBlocks : content[k].len <= MIN_SNIPPET_CHAR_FLOOR ]_vars
  /\ [][ (dropped' > dropped)
          => \A k \in ResourceBlocks : content[k].len = 0 ]_vars

\* C6 witness: all four stages have acted on a response with a long snippet.
C6_Witness ==
  /\ tpc = "done" /\ dropped >= 1 /\ Len(content) >= 3
  /\ \E i \in 1 .. Len(hits) : hits[i].len > SHRUNK_SNIPPET_CHAR_CAP

\* C7: from assembly to the end of trimming the resource blocks and metaHits
\* correspond by position: as many resource blocks as metaHits, and
\* content[2 + i] is the resource block of the hit of metaHits[i]; a drop of a
\* resource block removes its metaHits entry in the same step.
C7_BlocksPairedWithMetaHits ==
  /\ [](  tpc \notin {"idle", "hits"} =>
            /\ Cardinality(ResourceBlocks) = Len(metaHits)
            /\ \A i \in 1 .. Len(metaHits) :
                 /\ 2 + i <= Len(content)
                 /\ content[2 + i].type = "resource"
                 /\ content[2 + i].hit = metaHits[i] )
  /\ [][ (Len(content') < Len(content) /\ content[Len(content)].type = "resource")
          => /\ Len(metaHits') = Len(metaHits) - 1
             /\ metaHits[Len(metaHits)] = content[Len(content)].hit ]_vars

\* C7 witness: a pair was dropped and an aligned pair remains.
C7_Witness ==
  /\ tpc = "done" /\ dropped >= 1 /\ Len(metaHits) >= 1

\* C8: trimming sets complete to false exactly when step 4 dropped a block;
\* otherwise complete keeps the value the upstream search supplied.
C8_CompleteFalseIffDropped ==
  tpc = "done" =>
    /\ dropped >= 1 => complete = "false"
    /\ dropped = 0 => complete = upstreamComplete

\* C9: a per-attempt timeout is retried like a transient failure: a request
\* that ended in failure after a timeout has used its whole attempt budget.
C9_TimeoutIsRetried ==
  \A i \in 0 .. items - 1 :
    (phase[i] = "settled" /\ outcome[i] = "fail" /\ timedOut[i] > 0)
      => fetchCalls[i] = retryAttempts + 1

\* C10: once the caller's cancellation signal has fired, no attempt of the
\* remote fetch is started for any request.
C10_NoAttemptAfterCancel ==
  [][ aborted => fetchCalls' = fetchCalls ]_vars

\* C11: when the caller's signal fires while an attempt of a request is in
\* flight, that position's result is the failure placeholder, not the content
\* the in-flight call returns later; positions completed before keep theirs.
C11_InFlightAtCancelGetsPlaceholder ==
  fpc = "done" =>
    \A i \in 0 .. items - 1 :
      /\ i \in inFlightAtCancel => snippetMap[i] = Placeholder
      /\ (i \notin inFlightAtCancel /\ outcome[i] = "ok")
           => snippetMap[i] = SnippetSuccess(MapperData(i))

CallCount(i) == Cardinality({k \in 1 .. Len(calls) : calls[k] = i})

\* C13: the mapper is invoked exactly once for each index 0..N-1: never twice,
\* and by the time the promise resolves no index has been skipped.
C13_EachIndexInvokedOnce ==
  \A i \in 0 .. items - 1 :
    /\ CallCount(i) <= 1
    /\ CallCount(i) = 1 <=> outcome[i] # "none" \/ i \in pending
    /\ pc = "resolved" => CallCount(i) = 1

\* C13 witness: resolved with more items than the limit, with a synchronous
\* throw, a rejection and a success among the outcomes.
C13_Witness ==
  /\ pc = "resolved" /\ items >= 3 /\ maxConcurrent < items
  /\ \E i, j, k \in 0 .. items - 1 :
       /\ mapperKind[i] = "throws"
       /\ mapperKind[j] = "async" /\ outcome[j] = "fail"
       /\ outcome[k] = "ok"

\* C14: for N > 0 the progress callback is invoked exactly N times, the k-th
\* time with (k, N); for N = 0 it is never invoked and the result is empty.
C14_ProgressCountsOneToN ==
  /\ \A k \in 1 .. Len(progress) : progress[k] = <<k, items>>
  /\ Len(progress) <= items
  /\ pc = "resolved" => /\ Len(progress) = items
                        /\ items = 0 => ArrayLength(results) = 0

\* C15: resolve(results) is called only when every index 0..N-1 has a
\* recorded result and no mapper invocation is in flight; the resolved array
\* has no missing entry among 0..N-1.
C15_ResolvesOnlyWhenComplete ==
  /\ pc = "resolved" <=> resolvedAt # <<>>
  /\ pc = "resolved" =>
       /\ resolvedAt[1].act = 0
       /\ resolvedAt[1].pend = {}
       /\ resolvedAt[1].missing = {}
       /\ \A i \in 0 .. items - 1 : results[i] # Undefined

\* C15 witness: resolved after the last of several overlapping invocations
\* settled, some having failed.
C15_Witness ==
  /\ pc = "resolved" /\ items >= 3 /\ highWater >= 2
  /\ \E i, j \in 0 .. items - 1 : outcome[i] = "ok" /\ outcome[j] = "fail"

\* The blocks of result.content built for hit i (1-based, as in hits).
BlocksOfHit(i) == {k \in ResourceBlocks : content[k].hit = i}

\* Whether the assembled result is within the budget, so that no trimming acts.
AssembledWithinBudget ==
  SerializedBytes(AssembledContent(hits), AssembledMetaHits(hits), upstreamComplete)
    <= CAP_BYTES

BlockWarnings(b) == IF "warnings" \in DOMAIN b THEN b.warnings ELSE <<>>

\* C17: in the returned result every hit whose snippet fetch failed is
\* accompanied by a warning annotation, in its content block or its _meta entry.
C17_FailedHitCarriesWarning ==
  tpc = "done" =>
    \A i \in 1 .. Len(hits) :
      hitWarnings[i] # <<>> =>
        \/ \E k \in BlocksOfHit(i) : BlockWarnings(content[k]) # <<>>
        \/ \E m \in 1 .. Len(metaHits) :
             metaHits[m] = i /\ "warnings" \in DOMAIN AssembledMetaHitFields

\* C18: trimming terminates for every assembled response, also when what
\* trimming never touches is by itself larger than the budget and the final
\* size stays over it.
C18_TrimmingTerminates == <>(tpc = "done")

\* C18 witness: trimming has ended with only the summary left and the result
\* still over the budget.
C18_Witness ==
  /\ tpc = "done" /\ Len(hits) >= 2 /\ Len(content) = 1
  /\ SerializedBytes(content, metaHits, complete) > CAP_BYTES

\* C19: applying the whole trimming procedure again to a result it has
\* produced changes nothing: same content blocks and texts, same metaHits,
\* same complete flag, same serialized size.
C19_TrimmingIsIdempotent ==
  (tpc = "done" /\ pass = 2) =>
    /\ Returned = first[1]
    /\ SerializedBytes(content, metaHits, complete)
         = SerializedBytes(first[1].content, first[1].metaHits, first[1].complete)

\* One statement of the trimming code that shortens, empties or drops.
TrimmingStep == Step1Cut \/ Step2aVisit \/ Step2bVisit \/ Step3Visit \/ Step4Drop

\* C20: each single trimming step (a 90% cut of the prompt-ready text, a cap
\* of a resource text, the emptying of a resource text, the drop of a block
\* with its metaHits entry) leaves the serialized size no larger than before.
C20_StepsNeverIncreaseSize ==
  [][ TrimmingStep =>
        SerializedBytes(content', metaHits', complete')
          <= SerializedBytes(content, metaHits, complete) ]_vars

\* C21: trimming leaves everything but the texts, _meta.hits and
\* _meta.complete as assembled: every remaining block is the block assembled
\* at its position (same kind, same hit, hence same uri and mimeType, and the
\* summary is the summary), its text is present and is a prefix of the
\* assembled text; and no trimming step changes the hits, the part of the
\* result outside content, _meta.hits and _meta.complete, or isError.
C21_TrimmingKeepsTheRest ==
  /\ [](  tpc \notin {"idle", "hits"} =>
            \A assembled \in {AssembledContent(hits)} :
              /\ Len(content) <= Len(assembled)
              /\ \A k \in 1 .. Len(content) :
                   /\ "len" \in DOMAIN content[k]
                   /\ content[k].type = assembled[k].type
                   /\ content[k].hit = assembled[k].hit
                   /\ content[k].len \in 0 .. assembled[k].len
                   /\ content[k].type = "summary" => content[k].len = 0 )
  /\ [][ tpc \notin {"idle", "hits"} =>
           /\ baseBytes' = baseBytes /\ hits' = hits
           /\ hitWarnings' = hitWarnings /\ isError' = isError
           /\ upstreamComplete' = upstreamComplete ]_vars

\* C21 witness: trimming went through every stage and left a resource block
\* whose text was emptied.
C21_Witness ==
  /\ tpc = "done" /\ dropped >= 1
  /\ \E k \in ResourceBlocks : content[k].len = 0 /\ hits[content[k].hit].len > 0

\* C22: once assembled, content is never empty and starts with the summary
\* block; content gets shorter only in the loop of step 4, by exactly its last
\* block, and only while the serialized result is over the budget and more
\* than one block is left; when step 4 has ended, the size it measured last
\* fits or exactly one block remains.
C22_SummaryStaysFirst ==
  /\ [](  tpc \notin {"idle", "hits"} =>
            Len(content) >= 1 /\ content[1].type = "summary" )
  /\ [][ (tpc \notin {"idle", "hits"} /\ content' # content /\ Len(content') # Len(content)) =>
           /\ tpc = "step4loop"
           /\ Len(content) > 1
           /\ content' = SubSeq(content, 1, Len(content) - 1)
           /\ SerializedBytes(content, metaHits, complete) > CAP_BYTES ]_vars
  /\ [](  (tpc = "done" /\ dropped >= 1) =>
            \/ Len(content) = 1
            \/ SerializedBytes(content, metaHits, upstreamComplete) <= CAP_BYTES )

\* C22 witness: step 4 dropped every block but the summary and stopped there.
C22_Witness ==
  /\ tpc = "done" /\ dropped >= 2 /\ Len(content) = 1
  /\ SerializedBytes(content, metaHits, complete) > CAP_BYTES

\* The payload limit the tests and the documentation state: 50 KB.
TestedCapBytes == 50 * 1024

\* C23: whenever the minimal always-kept content fits in 50 KB, the
\* serialized result the handler ends with is at most 50 KB.
C23_ResultWithinFiftyKB ==
  (tpc = "done" /\ MinimalBytes <= TestedCapBytes) =>
    SerializedBytes(content, metaHits, complete) <= TestedCapBytes

\* The per-snippet limit the tests state: 500 characters.
TestedSnippetCharCap == 500

\* C24: no resource block of the result the handler ends with carries a text
\* of more than 500 characters, whatever the length of the fetched snippet.
C24_ResourceTextAtMostFiveHundred ==
  tpc = "done" => \A k \in ResourceBlocks : content[k].len <= TestedSnippetCharCap

\* C25: the handler never throws, and when the input validation or the
\* upstream search call has failed, it returns a result with isError = true
\* whose single text block holds the message with a remediation hint, no
\* snippet fetch having been started.
C25_HandlerNeverThrows ==
  /\ hpc # "thrown"
  /\ (hpc = "returned" /\ caught # <<>> /\ caught[1].at \in {"validation", "search"}) =>
       /\ hresult[1].isError
       /\ hresult[1].blocks = 1
       /\ hresult[1].hint # "none"
       /\ fpc = "new" /\ calls = <<>>

\* C26: a call of open_in_editor issues restListRepos only when no list has
\* been cached or the cached list was fetched more than five minutes before;
\* a call made within five minutes of the last successful refresh issues no
\* remote call and is answered from the cache at once.
C26_RemoteOnlyWhenStale ==
  \A c \in 1 .. Len(ecall) :
    /\ ecall[c].remote => (~ecall[c].hadList \/ ~ecall[c].fresh)
    /\ ecall[c].fresh => (~ecall[c].remote /\ ecall[c].st # "fetching")

\* C26 witness: a first call fetched the list, a later call within five
\* minutes was answered from the cache, and a call after the list had aged
\* beyond five minutes fetched it again.
C26_Witness ==
  \E a, b, c \in 1 .. Len(ecall) :
    /\ a < b /\ b < c
    /\ ecall[a].remote /\ ~ecall[a].hadList /\ ecall[a].st = "returned"
    /\ ecall[b].fresh /\ ~ecall[b].remote /\ ecall[b].st = "returned"
    /\ ecall[c].remote /\ ecall[c].hadList /\ ecall[c].st = "returned"

\* C27: throughout a call of file_write the target holds its complete
\* previous content or the complete new content; and when the write (the
\* writeFile or the rename) has failed, the call ends with the target holding
\* its previous content, the temporary file removed and isError = true.
C27_WriteIsAtomic ==
  /\ wpc # "idle" => target \in {previous, "new"}
  /\ (wpc = "returned" /\ wfailed \in {"writeFile", "rename"}) =>
       /\ target = previous
       /\ temp = "absent"
       /\ wresult[1].isError

\* C28: the mapper is invoked in input order with no index skipped, so item j
\* is never started before item i < j; the call itself starts at least the
\* first min(max(1, C), N) items, and exactly those when no mapper throws
\* synchronously; afterwards a start happens only when an invocation in
\* flight settles, and a settlement with unstarted items left starts the
\* lowest unstarted index in the same step (any further start of that step
\* following a mapper that threw synchronously, which settles at once).
C28_StartsInInputOrder ==
  /\ [](\A k \in 1 .. Len(calls) : calls[k] = k - 1)
  /\ [](pc # "new" => Len(calls) >= Min(Max(1, ConfiguredLimit), items))
  /\ [][ (pc = "new" /\ pc' # "new" /\ \A i \in 0 .. items - 1 : mapperKind[i] = "async")
           => Len(calls') = Min(Max(1, ConfiguredLimit), items) ]_vars
  /\ [][ (pc # "new" /\ pending' # pending /\ Len(calls) < items) =>
           /\ Len(calls') > Len(calls)
           /\ calls'[Len(calls) + 1] = Len(calls)
           /\ \A k \in Len(calls) + 1 .. Len(calls') - 1 :
                mapperKind[calls'[k]] = "throws" ]_vars
  /\ [][ (pc # "new" /\ Len(calls') > Len(calls)) =>
           \E i \in pending : i \notin pending' ]_vars

\* C28 witness: three items under a limit of two, no synchronous throw: all
\* were started, the third after a settlement, and the call has resolved.
C28_Witness ==
  /\ pc = "resolved" /\ items = 3 /\ ConfiguredLimit = 2
  /\ calls = <<0, 1, 2>>
  /\ \A i \in 0 .. 2 : mapperKind[i] = "async" /\ outcome[i] # "none"

\* C29: for every request restGetFileSlice is invoked at most
\* retryAttempts + 1 times, and no invocation is made for a request once one
\* of its attempts has succeeded.
C29_AttemptsBounded ==
  /\ [](\A i \in Idx : fetchCalls[i] <= retryAttempts + 1)
  /\ [][ \A i \in Idx : outcome[i] = "ok" => fetchCalls'[i] = fetchCalls[i] ]_vars

\* C29 witness: with retryAttempts = 1 one request failed on both of its
\* attempts, another succeeded on its first, and the fetch has returned.
C29_Witness ==
  /\ fpc = "done" /\ retryAttempts = 1
  /\ \E i, j \in 0 .. items - 1 :
       /\ fetchCalls[i] = 2 /\ outcome[i] = "fail"
       /\ fetchCalls[j] = 1 /\ outcome[j] = "ok"

\* C30: when the call is made and every mapper invocation eventually settles,
\* mapWithConcurrency eventually resolves, for every input length and every
\* limit (omitted, negative, zero, below, at and above the input length).
C30_EventuallyResolves == <>(pc = "resolved")

\* C30 witness: a call with a limit of zero or below has resolved after every
\* one of its items was mapped.
C30_Witness ==
  /\ pc = "resolved" /\ items = MaxItems /\ optMax \in {<<0>>, <<-1>>}
  /\ \A i \in 0 .. items - 1 : outcome[i] # "none"

\* C31: when the progress callback throws, every one of the N items is still
\* started and its result recorded, and the promise is eventually resolved with
\* all N results.
C31_ThrowingProgressStillResolves ==
  (onProgress # "returns") =>
     <>(/\ pc = "resolved"
        /\ \A i \in 0 .. items - 1 : outcome[i] # "none" /\ results[i] # Undefined)

\* C32: in every successful result the number of results the summary text
\* states equals the number of entries of _meta.hits and the number of resource
\* blocks, also after trimming has dropped blocks.
C32_SummaryCountMatchesResult ==
  tpc = "done" =>
    /\ SummaryCount = Len(metaHits)
    /\ SummaryCount = Cardinality(ResourceBlocks)

\* What one visit of a pass of step 2 with the given cap does to the blocks:
\* the block at JS index ti, and no other, is cut to the cap when it is a
\* resource block with a longer text; the next visit is of the next block.
VisitCapsOnlyItsBlock(cap) ==
  /\ size > CAP_BYTES
  /\ ti' = ti + 1
  /\ Len(content') = Len(content)
  /\ \A k \in 1 .. Len(content) :
       content'[k] =
         IF k = ti + 1 /\ content[k].type = "resource" /\ content[k].len > cap
         THEN [content[k] EXCEPT !.len = cap]
         ELSE content[k]

\* C33: stage 2 visits the blocks in content order. A visit of the first pass
\* cuts a resource text longer than the upper cap to exactly the upper cap and
\* leaves every other text as it is; the pass stops as soon as the size fits.
\* The second pass starts at the first block again, acts only while the size is
\* over the budget, which then means that the first pass has been over all the
\* blocks, and cuts the texts longer than the floor cap to the floor cap.
C33_Stage2CapsInTwoPasses ==
  /\ [][Step2aVisit => VisitCapsOnlyItsBlock(SHRUNK_SNIPPET_CHAR_CAP)]_vars
  /\ [][Step2bVisit => VisitCapsOnlyItsBlock(MIN_SNIPPET_CHAR_FLOOR)]_vars
  /\ [][Step1Exit \/ Step2aExit => ti' = 0]_vars
  /\ [][Step2bVisit => \A k \in ResourceBlocks :
                         content[k].len <= SHRUNK_SNIPPET_CHAR_CAP]_vars
  /\ [][(tpc \in {"step2a", "step2b"} /\ size <= CAP_BYTES) =>
          (content' = content /\ size' = size)]_vars

\* C33 witness: the second pass has cut to the floor cap a text that the first
\* pass had cut to the upper cap, and has visited every block.
C33_Witness ==
  /\ tpc = "step2b"
  /\ ti = Len(content)
  /\ Len(hits) = MaxHits
  /\ \A k \in ResourceBlocks :
       /\ content[k].len = MIN_SNIPPET_CHAR_FLOOR
       /\ hits[content[k].hit].len > SHRUNK_SNIPPET_CHAR_CAP

\* The hits whose resource text stage 3 has emptied: the text was not empty
\* when stage 3 began (stage 2 only shortens a text, it never empties one).
EmptiedByStage3 ==
  {i \in 1 .. Len(hits) :
     hits[i].len > 0 /\ \E k \in BlocksOfHit(i) : content[k].len = 0}

\* C34: stage 3 goes from the last hit towards the first, measures again after
\* each emptied text and stops as soon as the size fits; the hits it has
\* emptied are always a suffix of the hit list, and it removes no block.
C34_Stage3EmptiesASuffix ==
  /\ [](tpc \in {"step3", "step4"} =>
          \A i \in EmptiedByStage3 : \A j \in i .. Len(hits) :
             hits[j].len > 0 => j \in EmptiedByStage3)
  /\ [][Step3Visit =>
          /\ size > CAP_BYTES
          /\ ti' = ti - 1
          /\ Len(content') = Len(content)
          /\ \A k \in 1 .. Len(content) : content'[k].type = content[k].type
          /\ \A k \in 1 .. Len(content) :
               content'[k] # content[k] =>
                  /\ content[k].hit = ti + 1
                  /\ content'[k].len = 0
          /\ size' = jsonSizeBytes(content', metaHits, complete)]_vars
  /\ [][Step2bExit => ti' = Len(hits) - 1]_vars
  /\ [][(tpc = "step3" /\ size <= CAP_BYTES) => content' = content]_vars

\* C34 witness: stage 3 stopped after emptying the last hit's text only.
C34_Witness ==
  /\ tpc = "step4"
  /\ Len(hits) = MaxHits
  /\ EmptiedByStage3 = {MaxHits}
  /\ hits[1].len > 0

\* C35: stage 1 acts only while the size exceeds the budget. An iteration
\* replaces the prompt-ready text by its prefix of floor(0.9 * length)
\* characters and measures again; the stage goes on while the size is over the
\* budget and the text is not empty, and ends otherwise. Stage 1 touches no
\* other block and no entry of metaHits.
C35_Stage1CutsPromptReadyOnly ==
  /\ [][Step1Cut =>
          /\ size > CAP_BYTES
          /\ HasPromptReady
          /\ content' = [content EXCEPT ![2].len = (9 * content[2].len) \div 10]
          /\ content'[2].len < content[2].len
          /\ size' = jsonSizeBytes(content', metaHits, complete)
          /\ UNCHANGED <<metaHits, complete>>]_vars
  /\ [][Step1Exit =>
          /\ size <= CAP_BYTES \/ ~HasPromptReady \/ content[2].len = 0
          /\ ~HasPromptReady => Len(hits) = 0
          /\ UNCHANGED <<content, metaHits, complete, size>>]_vars
  /\ [][(tpc = "step1" /\ size > CAP_BYTES /\ HasPromptReady /\ content[2].len > 0) =>
          tpc' = "step1"]_vars

\* C35 witness: stage 1 ended because the size fits, with a prompt-ready text
\* that was cut and is not empty, and with every resource text whole.
C35_Witness ==
  /\ tpc = "step2a"
  /\ size <= CAP_BYTES
  /\ HasPromptReady
  /\ 0 < content[2].len
  /\ content[2].len < TextLength(buildPromptReady(hits))
  /\ \A k \in ResourceBlocks : content[k].len = hits[content[k].hit].len

\* C37: when the serialized size of the assembled response is within the
\* budget, trimming changes nothing: the prompt-ready text, every resource
\* text, the list of blocks, metaHits and the complete flag stay as assembled.
C37_NoTrimmingWithinBudget ==
  (tpc # "hits" /\ AssembledWithinBudget) =>
     \A assembled \in {AssembledContent(hits)} :
       /\ content = assembled
       /\ metaHits = AssembledMetaHits(hits)
       /\ complete = upstreamComplete
       /\ size = SerializedBytes(assembled, metaHits, upstreamComplete)
       /\ dropped = 0

\* C37 witness: the handler is past the four stages with a response that was
\* within the budget as assembled, one of whose snippets is longer than the
\* upper cap of stage 2.
C37_Witness ==
  /\ tpc = "done"
  /\ AssembledWithinBudget
  /\ upstreamComplete = "true"
  /\ \E i \in 1 .. Len(hits) : hits[i].len > SHRUNK_SNIPPET_CHAR_CAP

\* C36: in the result as assembled, before trimming, the text of the i-th
\* resource block is the content fetched by hit i's own request, and is empty
\* when that request failed, whatever the order in which the concurrent
\* fetches complete and whichever of them fail.
C36_BlockCarriesOwnSnippet ==
  /\ fpc = "done" =>
       \A i \in 0 .. items - 1 :
         /\ outcome[i] = "ok" => snippetMap[i] = SnippetSuccess(MapperData(i))
         /\ outcome[i] = "fail" => snippetMap[i] = Placeholder
         /\ outcome[i] # "none"
  /\ tpc = "step1" =>
       /\ Len(hits) = items
       /\ \A i \in 1 .. items :
            /\ BlocksOfHit(i) = {2 + i}
            /\ content[2 + i].len = hits[i].len
            /\ outcome[i - 1] = "ok" => hits[i] \in SearchSnippetChoices
            /\ outcome[i - 1] = "fail" => hits[i].len = 0

\* C36 witness: the second request settled first and failed, the first one
\* settled after it with its content; the result is assembled with the first
\* block carrying a text and the second block empty.
C36_Witness ==
  /\ tpc = "step1"
  /\ items = 2
  /\ settleOrder = <<1, 0>>
  /\ outcome[0] = "ok" /\ outcome[1] = "fail"
  /\ content[3].len > 0 /\ content[4].len = 0

\* C39: after a failed attempt number a (from 0) that is retried, the fetcher
\* waits 100 * 2^a ms before attempt a + 1: 100 ms, then 200 ms, and so on. No
\* delay is taken after the final attempt or after a success: a request has
\* waited once per attempt it made after the first, and once more only while
\* it is backing off.
C39_BackoffDoublesFrom100 ==
  \A i \in Idx :
    /\ \A a \in 0 .. Len(delays[i]) - 1 : delays[i][a + 1] = 100 * (2 ^ a)
    /\ Len(delays[i]) = IF phase[i] = "backoff" THEN attempt[i] + 1 ELSE attempt[i]
    /\ Len(delays[i]) <= retryAttempts
    /\ phase[i] \in {"fetching", "settled"} => Len(delays[i]) = fetchCalls[i] - 1

\* C39 witness: a request failed twice, waited 100 ms and then 200 ms, and
\* succeeded at its third attempt, with no further delay.
C39_Witness ==
  \E i \in Idx :
    /\ phase[i] = "settled"
    /\ outcome[i] = "ok"
    /\ attempt[i] = 2
    /\ delays[i] = <<100, 200>>

\* C38: the citation header of a hit shows the fetched (expanded) range
\* whenever context lines were requested and the fetched range differs from
\* the matched range, at its start or at its end; otherwise it shows the
\* matched range.
C38_HeaderShowsExpandedRange ==
  rpc = "rendered" =>
    \A h \in {hit[1]}, req \in {request[1]}, sr \in {snippetResult[1]} :
      LET requested == OrZero(req.contextLinesBefore) > 0 \/ OrZero(req.contextLinesAfter) > 0
          differs == \/ sliceCall[1].startLine # h.start_line
                     \/ sliceCall[1].endLine # h.end_line
      IN  IF sr.content = "fetched" /\ requested /\ differs
          THEN lineRange = <<[from |-> <<sliceCall[1].startLine>>,
                              to |-> <<sliceCall[1].endLine>>]>>
          ELSE lineRange = <<[from |-> <<h.start_line>>, to |-> <<h.end_line>>]>>

\* C40: every request is fetched from max(1, startLine - contextLinesBefore) to
\* endLine + contextLinesAfter, a missing margin counting as 0; a successful
\* entry reports that range as actualStartLine / actualEndLine and the
\* requested startLine / endLine as chunkStartLine / chunkEndLine.
C40_FetchedRangeAndMetadata ==
  rpc \in {"fetched", "hit", "rendered"} =>
    \A req \in {request[1]} :
      LET before == IF req.contextLinesBefore = <<>> THEN 0 ELSE req.contextLinesBefore[1]
          after == IF req.contextLinesAfter = <<>> THEN 0 ELSE req.contextLinesAfter[1]
          first1 == IF req.startLine - before > 1 THEN req.startLine - before ELSE 1
          last1 == req.endLine + after
      IN  /\ sliceCall = <<[startLine |-> first1, endLine |-> last1]>>
          /\ snippetResult[1].content = "fetched" =>
               /\ snippetResult[1].actualStartLine = <<first1>>
               /\ snippetResult[1].actualEndLine = <<last1>>
               /\ snippetResult[1].chunkStartLine = <<req.startLine>>
               /\ snippetResult[1].chunkEndLine = <<req.endLine>>

\* C40 witness: a request whose margin before reaches above the first line of
\* the file and whose margin after is missing was fetched with success.
C40_Witness ==
  /\ rpc = "fetched"
  /\ request[1].startLine = 2
  /\ request[1].contextLinesBefore = <<MaxMargin>>
  /\ request[1].contextLinesAfter = <<>>
  /\ snippetResult[1].content = "fetched"
  /\ snippetResult[1].actualStartLine = <<1>>
  /\ snippetResult[1].actualEndLine = snippetResult[1].chunkEndLine

====
